---- MODULE Spec2Model ----
(***************************************************************************)
(* A model of the P2P ingestion worker (src/worker): the token-bucket rate *)
(* limiter, the offer parser, the paginated pair extraction with its       *)
(* fork-join fan-out, and the dimensional loader with its transactional    *)
(* session.  Each component has a specification of its own (SpecRL,        *)
(* SpecParse, SpecExtract, SpecLoad) over the variables it owns; SpecJob   *)
(* is the job driver of main.py running the extraction and the load.       *)
(***************************************************************************)
EXTENDS Integers, Sequences, FiniteSets, TLC

VARIABLES
    \* ---- TokenBucketRateLimiter (rate_limiter.py)
    now,             \* time.time(), in whole seconds
    tokens,          \* self.tokens, counted in 1/FixedPoint of a token
    last_refill,     \* self.last_refill
    lock,            \* holder of self.lock, NoThread when free
    total_requests,  \* self.total_requests
    total_waits,     \* self.total_waits
    rpc,             \* per thread: "idle", "lock" (blocked at `with self.lock`), "sleep"
    rn,              \* per thread: the argument `tokens` of its acquire call
    rwait,           \* per thread: wait_time computed at line 87
    slept_at,        \* per thread: the clock when time.sleep started
    ret,             \* per thread: the value its last acquire returned
    calls,           \* history: acquire calls that have run their accounting
    returned,        \* history: acquire calls that have returned
    all_one,         \* history: every acquire so far asked for one token
    first_wait,      \* history: <<index, wait_time>> of the first call that had to wait
    \* ---- BinanceP2PExtractor._parse_offer (extractor.py)
    raw_ad,          \* the raw record `ad` handed to _parse_offer
    parsed,          \* what _parse_offer returned and logged
    parse_pc,        \* "ready" before the call, "done" after it
    \* ---- BinanceP2PExtractor (extractor.py)
    x_pc,            \* extract_all_offers: "idle", "discover", "discover_post", "collect", "done"
    pairs,           \* the list get_all_trading_pairs returned
    task,            \* per submitted pair: the state of its extract_pair_offers call
    all_offers,      \* all_offers of extract_all_offers
    x_result,        \* what extract_all_offers returned
    x_acquired,      \* history: rate_limiter.acquire() calls that have returned
    x_posted,        \* history: session.post calls issued
    x_attempts,      \* history: HTTP attempts sent, automatic retries included
    x_discovery,     \* history: the answer the discovery POST got
    \* ---- DataLoader and the warehouse session (loader.py, db.py)
    db,              \* the committed tables of the warehouse
    sess,            \* the tables as the open session sees them (flushed, not committed)
    s_open,          \* whether a session is open
    seq,             \* the autoincrement sequences (not rolled back)
    cache,           \* the four caches of the loader
    processed_offers,\* self.processed_offers
    l_pc,            \* load_offers: "idle", "dims", "facts", "commit", "failed"
    l_offers,        \* the argument offers
    l_batch_id,      \* the argument batch_id
    l_i,             \* index of the offer the current phase is at
    l_ts,            \* extraction_ts of _load_facts
    l_err,           \* the exception in flight, "none" without one
    l_outcome,       \* how the last load_offers call ended: "none", "returned", "raised"
    l_calls,         \* history: load_offers calls made
    l_fault,         \* history: the database itself failed during the current call
    db_before,       \* history: the committed tables when the current call began
    resolved,        \* history: every <<dimension, natural key, id>> a get-or-create returned
    inserted,        \* history: every <<dimension, natural key, id>> row ever added to a session
    commits,         \* history: session.commit() calls that succeeded
    rollbacks,       \* history: session.rollback() calls
    closes,          \* history: session.close() calls
    \* ---- the job driver (main.py)
    j_pc,            \* job(): "idle", "extract", "load"; "dead" once an exception left it
    j_runs,          \* history: job() calls made
    j_outcome        \* how the last job() ended: "none", "finished", "logged", "escaped"

rlVars == <<now, tokens, last_refill, lock, total_requests, total_waits,
            rpc, rn, rwait, slept_at, ret, calls, returned, all_one, first_wait>>

parseVars == <<raw_ad, parsed, parse_pc>>

extractVars == <<x_pc, pairs, task, all_offers, x_result, x_acquired, x_posted, x_attempts, x_discovery>>

loadVars == <<db, sess, s_open, seq, cache, processed_offers, l_pc, l_offers,
              l_batch_id, l_i, l_ts, l_err, l_outcome, l_calls, l_fault, db_before,
              resolved, inserted, commits, rollbacks, closes>>

jobVars == <<j_pc, j_runs, j_outcome>>

vars == <<rlVars, parseVars, extractVars, loadVars, jobVars>>

----------------------------------------------------------------------------
(* Bounds of the model *)

NumThreads == 2
MaxClock == 2
ExtraCalls == 2
\* settings.max_pages_per_pair, settings.max_workers and settings.max_retries
\* are deployment settings (defaults 50, 20 and 3); the model explores small
\* values of them.
max_pages_per_pair == 2
max_workers == 2
max_retries == 1
\* automatic retries explored in one run of the extractor
MaxRetried == 2
MaxLoads == 2
\* scheduled runs of job()
MaxJobs == 2

----------------------------------------------------------------------------
(* TokenBucketRateLimiter *)

rate_limit_requests_per_minute == 100
rate_limit_burst_size == 20
SecondsPerMinute == 60

\* Token quantities are exact rationals whose only divisor is the 60.0 of
\* line 39; they are held as integers counted in 1/FixedPoint of a token.
FixedPoint == SecondsPerMinute

Threads == 1..NumThreads
NoThread == 0
MaxCalls == rate_limit_burst_size + ExtraCalls
RequestSizes == {1, 2, rate_limit_burst_size + 1}

Min(a, b) == IF a <= b THEN a ELSE b

\* n whole tokens in fixed point
Whole(n) == n * FixedPoint

\* Mutant of tokens_per_second: the per-minute rate taken as a per-second rate.
Mut_tokens_per_second == rate_limit_requests_per_minute * FixedPoint

\* self.tokens_per_second = self.rate / 60.0, in fixed point per second
tokens_per_second == (rate_limit_requests_per_minute * FixedPoint) \div SecondsPerMinute

\* A duration in seconds, as the exact fraction <<numerator, denominator>>.
ZeroWait == <<0, 1>>
WaitTime(tokens_needed) == <<tokens_needed, tokens_per_second>>
Positive(w) == w[1] > 0 /\ w[2] > 0

\* Mutant of Refill: the refill is not capped at the burst size.
Mut_Refill(tok, elapsed) == tok + elapsed * tokens_per_second

\* lines 71-77: the bucket after the refill for the elapsed time
Refill(tok, elapsed) ==
    Min(Whole(rate_limit_burst_size), tok + elapsed * tokens_per_second)

\* Mutant of TokensAfterWait: the bucket keeps what the refill left in it.
Mut_TokensAfterWait(refilled, n) == refilled

\* line 91: the bucket after a wait
TokensAfterWait(refilled, n) == 0

\* Mutant of SleepOver: the sleep never returns.
Mut_SleepOver(t) == FALSE

\* time.sleep(wait_time) has returned: at least wait_time has passed
SleepOver(t) == (now - slept_at[t]) * rwait[t][2] >= rwait[t][1]

\* whether a thread blocked at `with self.lock` can take the lock
LockFree(t) == lock = NoThread

InitLimiter ==
    /\ now = 0
    /\ tokens = Whole(rate_limit_burst_size)
    /\ last_refill = 0
    /\ lock = NoThread
    /\ total_requests = 0
    /\ total_waits = 0
    /\ rpc = [t \in Threads |-> "idle"]
    /\ rn = [t \in Threads |-> 1]
    /\ rwait = [t \in Threads |-> ZeroWait]
    /\ slept_at = [t \in Threads |-> 0]
    /\ ret = [t \in Threads |-> ZeroWait]
    /\ calls = 0
    /\ returned = 0
    /\ all_one = TRUE
    /\ first_wait = <<0, ZeroWait>>

\* A thread calls acquire(n) and reaches `with self.lock` (line 69).
AcquireCall(t, n) ==
    /\ rpc[t] = "idle"
    /\ calls + Cardinality({u \in Threads : rpc[u] = "lock"}) < MaxCalls
    /\ rpc' = [rpc EXCEPT ![t] = "lock"]
    /\ rn' = [rn EXCEPT ![t] = n]
    /\ UNCHANGED <<now, tokens, last_refill, lock, total_requests, total_waits,
                   rwait, slept_at, ret, calls, returned, all_one, first_wait>>

\* Lines 69-90: the thread takes the lock, refills, and either deducts and
\* returns 0.0 (releasing the lock) or computes wait_time and starts to
\* sleep, still inside `with self.lock`.
AcquireEnter(t) ==
    /\ rpc[t] = "lock"
    /\ LockFree(t)
    /\ LET refilled == Refill(tokens, now - last_refill)
           n == Whole(rn[t])
       IN /\ last_refill' = now
          /\ calls' = calls + 1
          /\ all_one' = (all_one /\ rn[t] = 1)
          /\ IF refilled >= n
             THEN /\ tokens' = refilled - n
                  /\ total_requests' = total_requests + 1
                  /\ rpc' = [rpc EXCEPT ![t] = "idle"]
                  /\ ret' = [ret EXCEPT ![t] = ZeroWait]
                  /\ returned' = returned + 1
                  /\ UNCHANGED <<lock, rwait, slept_at, first_wait>>
             ELSE /\ tokens' = refilled
                  /\ rwait' = [rwait EXCEPT ![t] = WaitTime(n - refilled)]
                  /\ slept_at' = [slept_at EXCEPT ![t] = now]
                  /\ lock' = t
                  /\ rpc' = [rpc EXCEPT ![t] = "sleep"]
                  /\ first_wait' = IF first_wait[1] = 0
                                   THEN <<calls + 1, WaitTime(n - refilled)>>
                                   ELSE first_wait
                  /\ UNCHANGED <<total_requests, ret, returned>>
    /\ UNCHANGED <<now, total_waits, rn>>

\* Lines 91-102: the sleep is over; the bucket is emptied, the counters are
\* bumped, the lock is released and wait_time is returned.
AcquireWake(t) ==
    /\ rpc[t] = "sleep"
    /\ SleepOver(t)
    /\ tokens' = TokensAfterWait(tokens, Whole(rn[t]))
    /\ last_refill' = now
    /\ total_requests' = total_requests + 1
    /\ total_waits' = total_waits + 1
    /\ lock' = NoThread
    /\ rpc' = [rpc EXCEPT ![t] = "idle"]
    /\ ret' = [ret EXCEPT ![t] = rwait[t]]
    /\ returned' = returned + 1
    /\ UNCHANGED <<now, rn, rwait, slept_at, calls, all_one, first_wait>>

\* The wall clock advances.
Tick ==
    /\ now < MaxClock
    /\ now' = now + 1
    /\ UNCHANGED <<tokens, last_refill, lock, total_requests, total_waits,
                   rpc, rn, rwait, slept_at, ret, calls, returned, all_one, first_wait>>

----------------------------------------------------------------------------
(* BinanceP2PExtractor._parse_offer *)

\* JSON scalars are modelled by their text; a key that is absent and a key
\* whose value is null are kept apart, as dict.get keeps them apart.
Missing == "<missing>"
Null == "<null>"
\* Python's None, as a value of the parsed record
NoneValue == "<None>"

\* dict.get(key, default): the default only when the key is absent
GetDefault(v, default) == IF v = Missing THEN default ELSE v
\* dict.get(key): None when the key is absent or null
Get(v) == IF v \in {Missing, Null} THEN NoneValue ELSE v
\* str(v): a null value reads "None"
Str(v) == IF v = Null THEN "None" ELSE v

\* The decimal texts of the model and the numbers they denote; every other
\* text ("abc", "None", "") makes Decimal() raise InvalidOperation.
DecimalTable ==
    ("3" :> 3) @@ ("2" :> 2) @@ ("2.0" :> 2) @@ ("1" :> 1) @@ ("0" :> 0) @@
    ("-1" :> -1) @@ ("NaN" :> 0)

\* Decimal(text): ok is FALSE when the constructor raises
Decimal(text) ==
    IF text \in DOMAIN DecimalTable
    THEN [ok |-> TRUE, nan |-> text = "NaN", val |-> DecimalTable[text]]
    ELSE [ok |-> FALSE, nan |-> FALSE, val |-> 0]

\* The raw sub-objects and fields the model draws from.
PriceRaw == {"2", "2.0", "0", "-1", "abc", "NaN", Null, Missing}
AmountRaw == {"1", "0", "-1", "abc", "NaN", Missing}
MinLimitRaw == {"1", "0", "-1", "abc", "NaN"}
MaxLimitRaw == {"3", "0", "abc", Missing}
Method(pay_type) == [kind |-> "object", payType |-> pay_type]
TradeMethodsRaw ==
    { [kind |-> "missing", items |-> <<>>],
      [kind |-> "null", items |-> <<>>],
      [kind |-> "list", items |-> <<>>],
      [kind |-> "list", items |-> <<Method("BANK"), Method(Missing)>>],
      [kind |-> "list", items |-> <<Method("BANK"), [kind |-> "string", payType |-> Missing]>>] }
AdvObjects ==
    [kind : {"object"}, price : PriceRaw, surplusAmount : AmountRaw,
     minSingleTransAmount : MinLimitRaw, maxSingleTransAmount : MaxLimitRaw,
     tradeMethods : TradeMethodsRaw, asset : {"USDT", Missing}, fiatUnit : {"VES"},
     tradeType : {"BUY", "SELL"}]
\* `adv` absent from the record, or present as JSON null
NonObjectAdv(kind) ==
    [kind |-> kind, price |-> Missing, surplusAmount |-> Missing,
     minSingleTransAmount |-> Missing, maxSingleTransAmount |-> Missing,
     tradeMethods |-> [kind |-> "missing", items |-> <<>>], asset |-> Missing,
     fiatUnit |-> Missing, tradeType |-> Missing]
AdvRaw == AdvObjects \cup {NonObjectAdv("missing"), NonObjectAdv("null")}
AdvertiserRaw ==
    { [kind |-> "object", nickName |-> "alice"],
      [kind |-> "object", nickName |-> Missing],
      [kind |-> "missing", nickName |-> Missing],
      [kind |-> "null", nickName |-> Missing] }
RawAds == [adv : AdvRaw, advertiser : AdvertiserRaw]

\* return None, after the log line of the branch taken
Discard(log) == [offer |-> <<>>, log |-> log]
\* return parsed_offer
Present(offer) == [offer |-> <<offer>>, log |-> "none"]

\* Mutant of PriceAmountInvalid: the available amount is not looked at.
Mut_PriceAmountInvalid(price, available_amount) == price.val <= 0

\* line 224: price <= 0 or available_amount <= 0
PriceAmountInvalid(price, available_amount) ==
    price.val <= 0 \/ available_amount.val <= 0

\* line 224 raises InvalidOperation when an operand it compares is NaN
ComparisonRaises(price, available_amount) ==
    price.nan \/ (price.val > 0 /\ available_amount.nan)

\* lines 233-235: the comprehension raises on a null list or a non-object entry
MethodsRaise(trade_methods) ==
    \/ trade_methods.kind = "null"
    \/ \E i \in 1..Len(trade_methods.items) : trade_methods.items[i].kind # "object"

PaymentMethods(trade_methods) ==
    [i \in 1..Len(trade_methods.items) |-> Get(trade_methods.items[i].payType)]

\* _parse_offer(ad), with the uuid4 it draws
ParseOffer(ad, uuid) ==
    LET adv == ad.adv
        advertiser == ad.advertiser
        price == Decimal(Str(GetDefault(adv.price, "0")))
        available_amount == Decimal(Str(GetDefault(adv.surplusAmount, "0")))
        min_limit == Decimal(Str(GetDefault(adv.minSingleTransAmount, "0")))
        max_limit == Decimal(Str(GetDefault(adv.maxSingleTransAmount, "0")))
    IN  IF adv.kind = "missing" \/ advertiser.kind = "missing"
        THEN Discard("Missing key in offer data")                \* line 253
        ELSE IF adv.kind # "object"
        THEN Discard("Error parsing offer data")                 \* adv.get raises
        ELSE IF ~(price.ok /\ available_amount.ok /\ min_limit.ok /\ max_limit.ok)
        THEN Discard("Error parsing offer data")                 \* InvalidOperation, line 257
        ELSE IF ComparisonRaises(price, available_amount)
        THEN Discard("Error parsing offer data")                 \* InvalidOperation, line 257
        ELSE IF PriceAmountInvalid(price, available_amount)
        THEN Discard("Skipping offer with invalid price/amount") \* line 225
        ELSE IF MethodsRaise(adv.tradeMethods)
        THEN Discard("Error parsing offer data")                 \* line 257
        ELSE IF advertiser.kind # "object"
        THEN Discard("Error parsing offer data")                 \* advertiser.get raises
        ELSE Present([offer_external_id |-> uuid,
                      advertiser_nickname |-> Get(advertiser.nickName),
                      price |-> price,
                      available_amount |-> available_amount,
                      min_limit |-> min_limit,
                      max_limit |-> max_limit,
                      payment_methods |-> PaymentMethods(adv.tradeMethods),
                      asset |-> Get(adv.asset),
                      fiat |-> Get(adv.fiatUnit),
                      trade_type |-> Get(adv.tradeType)])

NotParsed == Discard("not called")

InitParser ==
    /\ raw_ad \in RawAds
    /\ parsed = NotParsed
    /\ parse_pc = "ready"

\* the parser is not part of the run
InitParseIdle ==
    /\ raw_ad = [adv |-> NonObjectAdv("missing"),
                 advertiser |-> [kind |-> "missing", nickName |-> Missing]]
    /\ parsed = NotParsed
    /\ parse_pc = "done"

\* One call of _parse_offer on the raw record.
ParseStep ==
    /\ parse_pc = "ready"
    /\ parsed' = ParseOffer(raw_ad, 1)
    /\ parse_pc' = "done"
    /\ UNCHANGED raw_ad
----------------------------------------------------------------------------
(* BinanceP2PExtractor: discovery, pagination, fan-out *)

SuccessCode == "000000"

\* The answers of the discovery endpoint the model draws from: an exception
\* out of session.post / raise_for_status / json, or a decoded body.
Body(code, data) == [kind |-> "body", code |-> code, data |-> data]
Raised == [kind |-> "raised", code |-> "", data |-> <<>>]
\* An attempt that failed in the way the Retry of the session retries: a
\* status of the forcelist (429, 500, 502, 503, 504) or a transport error.
Transient == [kind |-> "transient", code |-> "", data |-> <<>>]
\* A decoded body that is not the mapping the code takes it for, so that
\* data.get or the iteration over it raises.
Malformed == [kind |-> "malformed", code |-> "", data |-> <<>>]

\* The exception inside the try block for an answer, "none" without one:
\* retries exhausted, raise_for_status or json(), a body of the wrong shape.
PostException(response) ==
    CASE response.kind = "transient" -> "RetryError"
      [] response.kind = "raised" -> "HTTPError"
      [] response.kind = "malformed" -> "AttributeError"
      [] OTHER -> "none"

\* Mutant of Caught: only the exceptions of the HTTP library are caught.
Mut_Caught(exception) == exception \in {"RetryError", "HTTPError"}

\* except Exception (lines 115, 194): every exception of the try block
Caught(exception) == exception \in {"RetryError", "HTTPError", "AttributeError"}

\* Mutant of Attempts: the session retries once more than Retry(total) says.
Mut_Attempts(transients) == transients + 2

\* The attempts of one session.post call: the transient failures the
\* session retried, and the attempt that produced the answer.  An answer
\* that is itself the transient failure means the retries are used up.
Attempts(transients) == transients + 1
PostAnswers(transients, response) ==
    /\ transients \in 0..max_retries
    /\ (x_attempts - x_posted) + transients <= MaxRetried
    /\ response.kind = "transient" => transients = max_retries
FiatItem(fiat, assets) == [fiatUnit |-> fiat, assetList |-> assets]
DiscoveryData ==
    { <<>>,
      <<FiatItem("VES", <<"USDT">>)>>,
      <<FiatItem("VES", <<"USDT">>), FiatItem("ARS", <<>>)>>,
      <<FiatItem("VES", <<"USDT", "BTC">>)>> }
DiscoveryResponses ==
    {Raised, Transient, Malformed} \cup {Body("000002", d) : d \in {<<>>}} \cup {Body(SuccessCode, d) : d \in DiscoveryData}

Pair(fiat, asset, trade_type) == [fiat |-> fiat, asset |-> asset, trade_type |-> trade_type]

\* Mutant of AssetPairs: only the BUY pair of each asset is produced.
Mut_AssetPairs(fiat, assets) == [k \in 1..Len(assets) |-> Pair(fiat, assets[k], "BUY")]

\* lines 100-110: both directions of every asset of one fiat
RECURSIVE AssetPairs(_, _)
AssetPairs(fiat, assets) ==
    IF assets = <<>> THEN <<>>
    ELSE <<Pair(fiat, Head(assets), "BUY"), Pair(fiat, Head(assets), "SELL")>>
         \o AssetPairs(fiat, Tail(assets))

\* lines 95-110
RECURSIVE ExpandPairs(_)
ExpandPairs(data) ==
    IF data = <<>> THEN <<>>
    ELSE AssetPairs(Head(data).fiatUnit, Head(data).assetList) \o ExpandPairs(Tail(data))

\* get_all_trading_pairs, given the answer to its POST (lines 81-117)
TradingPairs(response) ==
    IF PostException(response) # "none" THEN <<>>
    ELSE IF response.code # SuccessCode THEN <<>>
    ELSE ExpandPairs(response.data)

\* Raw records of a search page: one that parses and one that does not.
GoodAd(pair) ==
    [adv |-> [kind |-> "object", price |-> "2.0", surplusAmount |-> "1",
              minSingleTransAmount |-> "1", maxSingleTransAmount |-> "3",
              tradeMethods |-> [kind |-> "list", items |-> <<Method("BANK")>>],
              asset |-> pair.asset, fiatUnit |-> pair.fiat, tradeType |-> pair.trade_type],
     advertiser |-> [kind |-> "object", nickName |-> "alice"]]
BadAd(pair) ==
    [adv |-> [kind |-> "object", price |-> "0", surplusAmount |-> "1",
              minSingleTransAmount |-> "1", maxSingleTransAmount |-> "3",
              tradeMethods |-> [kind |-> "list", items |-> <<Method("BANK")>>],
              asset |-> pair.asset, fiatUnit |-> pair.fiat, tradeType |-> pair.trade_type],
     advertiser |-> [kind |-> "object", nickName |-> "alice"]]

\* The answers of the search endpoint for one page of one pair.
\* The model lets only the first fiat item's first asset have offers.
PageResponses(pair) ==
    IF pair.asset = "USDT"
    THEN { Raised, Transient, Malformed, Body("000002", <<>>), Body(SuccessCode, <<>>),
           Body(SuccessCode, <<BadAd(pair), GoodAd(pair)>>) }
    ELSE { Transient, Body(SuccessCode, <<>>) }

\* lines 179-182: the records of a page that parse, in page order; the
\* uuid4 of a record is modelled by its place <<task, page, index>>
RECURSIVE ParsePage(_, _, _, _)
ParsePage(ads, i, page, k) ==
    IF k > Len(ads) THEN <<>>
    ELSE ParseOffer(ads[k], <<i, page, k>>).offer \o ParsePage(ads, i, page, k + 1)

\* Mutant of CapReached: the cap is compared one page late.
Mut_CapReached(page) == page > max_pages_per_pair + 1

\* line 186
CapReached(page) == page > max_pages_per_pair

\* Mutant of Extend: the collected list is replaced, not extended.
Mut_Extend(list, offers) == offers

\* line 297: all_offers.extend(offers)
Extend(list, offers) == list \o offers

Tasks == DOMAIN task
Running(i) == task[i].st \in {"acquire", "post"}
NumRunning == Cardinality({i \in Tasks : Running(i)})

\* Mutant of PoolHasRoom: the pool starts a task whenever one is queued.
Mut_PoolHasRoom == TRUE

\* ThreadPoolExecutor(max_workers=settings.max_workers), line 280
PoolHasRoom == NumRunning < max_workers

\* Mutant of NextPageState: the next page is posted without an acquire.
Mut_NextPageState == "post"

\* while True (line 141): the next turn begins with rate_limiter.acquire()
NextPageState == "acquire"

\* st: "queued", "acquire", "post", "finished", "collected"; stop: what ended
\* the pagination; exc: the exception that left extract_pair_offers;
\* failure: the exception of the try block, caught or not; fetched: the
\* data of the pages that were parsed.
NewTask == [st |-> "queued", page |-> 1, offers |-> <<>>, requests |-> 0, stop |-> "none",
            exc |-> "none", failure |-> "none", fetched |-> <<>>]

InitExtractIdle ==
    /\ x_pc = "idle"
    /\ pairs = <<>>
    /\ task = <<>>
    /\ all_offers = <<>>
    /\ x_result = <<>>
    /\ x_acquired = 0
    /\ x_posted = 0
    /\ x_attempts = 0
    /\ x_discovery = Raised

\* extract_all_offers is called and calls get_all_trading_pairs (line 269),
\* which blocks in rate_limiter.acquire() (line 79).
ExtractAllCall ==
    /\ x_pc = "idle"
    /\ x_pc' = "discover"
    /\ UNCHANGED <<pairs, task, all_offers, x_result, x_acquired, x_posted, x_attempts, x_discovery>>

\* rate_limiter.acquire() of line 79 returns.
DiscoverAcquire ==
    /\ x_pc = "discover"
    /\ x_pc' = "discover_post"
    /\ x_acquired' = x_acquired + 1
    /\ UNCHANGED <<pairs, task, all_offers, x_result, x_posted, x_attempts, x_discovery>>

\* Lines 81-117 and 271-290: the discovery POST is answered; with no pair
\* extract_all_offers returns [], otherwise every pair is submitted to the pool.
DiscoverPost(transients, response) ==
    /\ x_pc = "discover_post"
    /\ PostAnswers(transients, response)
    /\ x_posted' = x_posted + 1
    /\ x_attempts' = x_attempts + Attempts(transients)
    /\ x_discovery' = response
    /\ pairs' = TradingPairs(response)
    /\ IF TradingPairs(response) = <<>>
       THEN /\ x_pc' = "done"
            /\ x_result' = <<>>
            /\ UNCHANGED <<task, all_offers>>
       ELSE /\ x_pc' = "collect"
            /\ task' = [i \in 1..Len(TradingPairs(response)) |-> NewTask]
            /\ all_offers' = <<>>
            /\ UNCHANGED x_result
    /\ UNCHANGED x_acquired

\* A pool worker takes the next submitted call from the queue (line 280:
\* at most max_workers run at a time, taken in submission order) and
\* reaches rate_limiter.acquire() of line 143.
TaskStart(i) ==
    /\ x_pc = "collect"
    /\ task[i].st = "queued"
    /\ \A j \in Tasks : j < i => task[j].st # "queued"
    /\ PoolHasRoom
    /\ task' = [task EXCEPT ![i].st = "acquire"]
    /\ UNCHANGED <<x_pc, pairs, all_offers, x_result, x_acquired, x_posted, x_attempts, x_discovery>>

\* rate_limiter.acquire() of line 143 returns.
TaskAcquire(i) ==
    /\ task[i].st = "acquire"
    /\ task' = [task EXCEPT ![i].st = "post"]
    /\ x_acquired' = x_acquired + 1
    /\ UNCHANGED <<x_pc, pairs, all_offers, x_result, x_posted, x_attempts, x_discovery>>

\* Mutant of Stopped: the break discards what the call has parsed so far.
Mut_Stopped(t, stop) == [t EXCEPT !.st = "finished", !.stop = stop, !.offers = <<>>]

\* break (lines 171, 176, 192, 198), then return all_offers (line 204)
Stopped(t, stop) == [t EXCEPT !.st = "finished", !.stop = stop]

\* Lines 145-204: the search POST of the current page is answered, after
\* the transient failures the session retried.  An exception the handler of
\* line 194 does not catch leaves extract_pair_offers.
TaskPost(i, transients, response) ==
    /\ task[i].st = "post"
    /\ PostAnswers(transients, response)
    /\ x_posted' = x_posted + 1
    /\ x_attempts' = x_attempts + Attempts(transients)
    /\ LET t == [task[i] EXCEPT !.requests = @ + 1]
           found == ParsePage(response.data, i, t.page, 1)
           advanced == [t EXCEPT !.offers = @ \o found, !.page = @ + 1,
                               !.fetched = Append(@, response.data)]
       IN  task' = [task EXCEPT ![i] =
               IF PostException(response) # "none"
               THEN IF Caught(PostException(response))
                    THEN [Stopped(t, "error") EXCEPT                       \* line 194
                                   !.failure = PostException(response)]
                    ELSE [t EXCEPT !.st = "finished", !.stop = "error",
                                   !.failure = PostException(response),
                                   !.exc = PostException(response)]
               ELSE IF response.code # SuccessCode
               THEN Stopped(t, "code")                                  \* line 166
               ELSE IF response.data = <<>>
               THEN Stopped(t, "empty")                                 \* line 174
               ELSE IF CapReached(advanced.page)
               THEN Stopped(advanced, "cap")                            \* line 186
               ELSE [advanced EXCEPT !.st = NextPageState]]
    /\ UNCHANGED <<x_pc, pairs, all_offers, x_result, x_acquired, x_discovery>>

\* Lines 293-300: as_completed yields a finished future; its offers are
\* appended to all_offers, or the exception its call raised is logged.
Collect(i) ==
    /\ x_pc = "collect"
    /\ task[i].st = "finished"
    /\ all_offers' = IF task[i].exc = "none" THEN Extend(all_offers, task[i].offers)
                     ELSE all_offers
    /\ task' = [task EXCEPT ![i].st = "collected"]
    /\ UNCHANGED <<x_pc, pairs, x_result, x_acquired, x_posted, x_attempts, x_discovery>>

\* Lines 304-305: every future has been yielded, the pool is shut down and
\* all_offers is returned.
ExtractAllReturn ==
    /\ x_pc = "collect"
    /\ \A i \in Tasks : task[i].st = "collected"
    /\ x_pc' = "done"
    /\ x_result' = all_offers
    /\ UNCHANGED <<pairs, task, all_offers, x_acquired, x_posted, x_attempts, x_discovery>>

----------------------------------------------------------------------------
(* DataLoader and DatabaseManager.get_session *)

Dimensions == {"crypto", "fiat", "pm", "adv"}

EmptyTables ==
    [crypto |-> {}, fiat |-> {}, pm |-> {}, adv |-> {}, facts |-> {}, bridge |-> {}]
NoSequence == [crypto |-> 0, fiat |-> 0, pm |-> 0, adv |-> 0, facts |-> 0, bridge |-> 0]
EmptyCache == [crypto |-> <<>>, fiat |-> <<>>, pm |-> <<>>, adv |-> <<>>]

\* A warehouse an earlier process has already loaded dimensions into.
UsedTables ==
    [crypto |-> {[crypto_id |-> 1, symbol |-> "USDT"]},
     fiat |-> {[fiat_id |-> 1, currency_code |-> "VES"]},
     pm |-> {[payment_method_id |-> 1, method_code |-> "BANK"]},
     adv |-> {[advertiser_sk |-> 1, advertiser_id |-> "a1", nickname |-> "alice",
               is_current |-> TRUE]},
     facts |-> {}, bridge |-> {}]
UsedSequence == [crypto |-> 1, fiat |-> 1, pm |-> 1, adv |-> 1, facts |-> 0, bridge |-> 0]

\* Offers with the keys the loader reads (lines 154-188).
LoaderOffer(id, asset, fiat, adv_id, nickname, methods) ==
    [id |-> id, asset |-> asset, fiat |-> fiat,
     advertiser |-> [id |-> adv_id, nickname |-> nickname,
                     completion_rate |-> 1, total_orders |-> 3],
     payment_methods |-> methods, trade_type |-> "BUY",
     price |-> Decimal("2"), available_amount |-> Decimal("1"),
     min_limit |-> Decimal("1"), max_limit |-> Decimal("3")]
PayMethod(code) == [identifier |-> code, tradeMethodName |-> code]
OfferA == LoaderOffer("o1", "USDT", "VES", "a1", "alice", <<PayMethod("BANK")>>)
OfferB == LoaderOffer("o2", "BTC", "VES", "a2", "bob", <<PayMethod("BANK"), PayMethod("CASH")>>)
\* Offers as extract_all_offers returns them: what _parse_offer emitted.
Emitted(uuid) == ParseOffer(GoodAd(Pair("VES", "USDT", "BUY")), uuid).offer[1]

\* An offer that lists one payment method twice.
OfferC == LoaderOffer("o3", "USDT", "VES", "a1", "alice", <<PayMethod("BANK"), PayMethod("BANK")>>)

Batches ==
    { <<>>, <<OfferA>>, <<OfferA, OfferB>>, <<OfferB, OfferA>>, <<OfferC>>,
      <<Emitted(1)>>, <<Emitted(1), Emitted(2)>> }
BatchIds == {"b1", "b2"}

HasKey(mapping, key) == key \in DOMAIN mapping

\* The state a load threads through its database calls.
LoadState == [sess |-> sess, seq |-> seq, cache |-> cache, resolved |-> resolved,
              inserted |-> inserted, err |-> "none", ret |-> 0]
Raise(s, exception) == IF s.err = "none" THEN [s EXCEPT !.err = exception] ELSE s

\* The constraints a flush enforces: unique natural keys (models.py lines
\* 30, 41, 52) and the foreign keys of facts and bridge rows (lines 85-87,
\* 115-122).
ConstraintsHold(t) ==
    /\ \A r1 \in t.crypto, r2 \in t.crypto : r1.symbol = r2.symbol => r1 = r2
    /\ \A r1 \in t.fiat, r2 \in t.fiat : r1.currency_code = r2.currency_code => r1 = r2
    /\ \A r1 \in t.pm, r2 \in t.pm : r1.method_code = r2.method_code => r1 = r2
    /\ \A f \in t.facts :
          /\ \E r \in t.crypto : r.crypto_id = f.crypto_id
          /\ \E r \in t.fiat : r.fiat_id = f.fiat_id
          /\ \E r \in t.adv : r.advertiser_sk = f.advertiser_sk
    /\ \A b \in t.bridge :
          /\ \E r \in t.pm : r.payment_method_id = b.payment_method_id
          /\ \E f \in t.facts : /\ f.offer_id = b.offer_id
                                /\ f.extraction_timestamp = b.extraction_timestamp

\* session.flush(): the pending rows reach the database, which checks them
Flush(s) ==
    IF s.err # "none" THEN s
    ELSE IF ConstraintsHold(s.sess) THEN s
    ELSE Raise(s, "IntegrityError")

\* Mutant of CacheStore: the id is returned without being cached.
Mut_CacheStore(s, dim, key, id) ==
    [s EXCEPT !.resolved = @ \cup {<<dim, key, id>>}, !.ret = id]

\* self._<dim>_cache[key] = id; return id
CacheStore(s, dim, key, id) ==
    [s EXCEPT !.cache[dim] = (key :> id) @@ @,
              !.resolved = @ \cup {<<dim, key, id>>},
              !.ret = id]

\* return self._<dim>_cache[key]
CacheHit(s, dim, key) ==
    [s EXCEPT !.resolved = @ \cup {<<dim, key, s.cache[dim][key]>>},
              !.ret = s.cache[dim][key]]

\* session.add(row); session.flush(); cache the generated id
AddRow(s, dim, key, row, id) ==
    LET added == [s EXCEPT !.sess[dim] = @ \cup {row},
                           !.seq[dim] = id,
                           !.inserted = @ \cup {<<dim, key, id>>}]
        flushed == Flush(added)
    IN  IF flushed.err # "none" THEN flushed ELSE CacheStore(flushed, dim, key, id)

\* query(...).filter_by(...).first(): the id of the row found, the lowest
\* should there be several
FirstId(ids) == CHOOSE i \in ids : \A j \in ids : i <= j

\* _get_or_create_crypto (lines 75-92)
GetOrCreateCrypto(s, symbol) ==
    IF s.err # "none" THEN s
    ELSE IF HasKey(s.cache.crypto, symbol) THEN CacheHit(s, "crypto", symbol)
    ELSE LET found == {r \in s.sess.crypto : r.symbol = symbol}
             id == s.seq.crypto + 1
         IN  IF found # {}
             THEN CacheStore(s, "crypto", symbol, FirstId({r.crypto_id : r \in found}))
             ELSE AddRow(s, "crypto", symbol, [crypto_id |-> id, symbol |-> symbol], id)

\* _get_or_create_fiat (lines 94-110)
GetOrCreateFiat(s, code) ==
    IF s.err # "none" THEN s
    ELSE IF HasKey(s.cache.fiat, code) THEN CacheHit(s, "fiat", code)
    ELSE LET found == {r \in s.sess.fiat : r.currency_code = code}
             id == s.seq.fiat + 1
         IN  IF found # {}
             THEN CacheStore(s, "fiat", code, FirstId({r.fiat_id : r \in found}))
             ELSE AddRow(s, "fiat", code, [fiat_id |-> id, currency_code |-> code], id)

\* _get_or_create_payment_method (lines 112-125)
GetOrCreatePaymentMethod(s, method_code, method_name) ==
    IF s.err # "none" THEN s
    ELSE IF HasKey(s.cache.pm, method_code) THEN CacheHit(s, "pm", method_code)
    ELSE LET found == {r \in s.sess.pm : r.method_code = method_code}
             id == s.seq.pm + 1
         IN  IF found # {}
             THEN CacheStore(s, "pm", method_code,
                             FirstId({r.payment_method_id : r \in found}))
             ELSE AddRow(s, "pm", method_code,
                         [payment_method_id |-> id, method_code |-> method_code], id)

\* Mutant of CurrentRows: the query filters on the rows that are not current.
Mut_CurrentRows(rows, adv_id) == {r \in rows : r.advertiser_id = adv_id /\ ~r.is_current}

\* line 133: filter_by(advertiser_id=adv_id, is_current=True)
CurrentRows(rows, adv_id) == {r \in rows : r.advertiser_id = adv_id /\ r.is_current}

\* _get_or_create_advertiser (lines 127-149)
GetOrCreateAdvertiser(s, adv_id, nickname) ==
    IF s.err # "none" THEN s
    ELSE IF HasKey(s.cache.adv, adv_id) THEN CacheHit(s, "adv", adv_id)
    ELSE LET found == CurrentRows(s.sess.adv, adv_id)
             id == s.seq.adv + 1
         IN  IF found # {}
             THEN CacheStore(s, "adv", adv_id, FirstId({r.advertiser_sk : r \in found}))
             ELSE AddRow(s, "adv", adv_id,
                         [advertiser_sk |-> id, advertiser_id |-> adv_id,
                          nickname |-> nickname, is_current |-> TRUE], id)

\* line 156 / 165: offer['advertiser']['id'], offer['advertiser']['nickname']
ResolveAdvertiser(s, offer) ==
    IF s.err # "none" THEN s
    ELSE IF ~HasKey(offer, "advertiser") THEN Raise(s, "KeyError")
    ELSE IF ~(HasKey(offer.advertiser, "id") /\ HasKey(offer.advertiser, "nickname"))
    THEN Raise(s, "KeyError")
    ELSE GetOrCreateAdvertiser(s, offer.advertiser.id, offer.advertiser.nickname)

\* lines 157-158: the payment methods of one offer, from the k-th on
RECURSIVE ResolveMethods(_, _, _)
ResolveMethods(s, methods, k) ==
    IF s.err # "none" \/ k > Len(methods) THEN s
    ELSE IF ~(HasKey(methods[k], "identifier") /\ HasKey(methods[k], "tradeMethodName"))
    THEN Raise(s, "KeyError")
    ELSE ResolveMethods(
             GetOrCreatePaymentMethod(s, methods[k].identifier, methods[k].tradeMethodName),
             methods, k + 1)

\* _load_dimensions, the body of its loop for one offer (lines 154-158)
LoadDimensionsOf(s, offer) ==
    LET s1 == IF HasKey(offer, "asset") THEN GetOrCreateCrypto(s, offer.asset)
              ELSE Raise(s, "KeyError")
        s2 == IF s1.err # "none" THEN s1
              ELSE IF HasKey(offer, "fiat") THEN GetOrCreateFiat(s1, offer.fiat)
              ELSE Raise(s1, "KeyError")
        s3 == ResolveAdvertiser(s2, offer)
    IN  IF s3.err # "none" THEN s3
        ELSE IF ~HasKey(offer, "payment_methods") THEN Raise(s3, "KeyError")
        ELSE ResolveMethods(s3, offer.payment_methods, 1)

\* the keys lines 168-180 read to build the FactOffers row
FactKeys == {"id", "trade_type", "price", "available_amount", "min_limit", "max_limit"}
AdvertiserFactKeys == {"completion_rate", "total_orders"}

\* lines 187-194: one bridge row per payment method of the offer, from the k-th on
RECURSIVE AddBridgeRows(_, _, _, _, _)
AddBridgeRows(s, methods, k, offer_id, ts) ==
    IF s.err # "none" \/ k > Len(methods) THEN s
    ELSE IF ~(HasKey(methods[k], "identifier") /\ HasKey(methods[k], "tradeMethodName"))
    THEN Raise(s, "KeyError")
    ELSE LET r == GetOrCreatePaymentMethod(s, methods[k].identifier,
                                           methods[k].tradeMethodName)
             id == r.seq.bridge + 1
         IN  IF r.err # "none" THEN r
             ELSE AddBridgeRows(
                      [r EXCEPT !.sess.bridge = @ \cup
                                    {[offer_payment_id |-> id, offer_id |-> offer_id,
                                      extraction_timestamp |-> ts,
                                      payment_method_id |-> r.ret]},
                                !.seq.bridge = id],
                      methods, k + 1, offer_id, ts)

\* _load_facts, the body of its loop for one offer (lines 163-194)
LoadFactOf(s, offer, batch_id, ts) ==
    LET s1 == IF HasKey(offer, "asset") THEN GetOrCreateCrypto(s, offer.asset)
              ELSE Raise(s, "KeyError")
        s2 == IF s1.err # "none" THEN s1
              ELSE IF HasKey(offer, "fiat") THEN GetOrCreateFiat(s1, offer.fiat)
              ELSE Raise(s1, "KeyError")
        s3 == ResolveAdvertiser(s2, offer)
        offer_id == s3.seq.facts + 1
    IN  IF s3.err # "none" THEN s3
        ELSE IF ~(FactKeys \subseteq DOMAIN offer) THEN Raise(s3, "KeyError")
        ELSE IF ~(AdvertiserFactKeys \subseteq DOMAIN offer.advertiser)
        THEN Raise(s3, "KeyError")
        ELSE LET fact == [offer_id |-> offer_id,
                          offer_external_id |-> offer.id,
                          batch_id |-> batch_id,
                          extraction_timestamp |-> ts,
                          crypto_id |-> s1.ret,
                          fiat_id |-> s2.ret,
                          advertiser_sk |-> s3.ret,
                          trade_type |-> offer.trade_type,
                          price |-> offer.price]
                 s4 == Flush([s3 EXCEPT !.sess.facts = @ \cup {fact},
                                        !.seq.facts = offer_id])
             IN  IF s4.err # "none" THEN s4
                 ELSE IF ~HasKey(offer, "payment_methods") THEN Raise(s4, "KeyError")
                 ELSE AddBridgeRows(s4, offer.payment_methods, 1, offer_id, ts)

InitLoader ==
    /\ \/ db = EmptyTables /\ seq = NoSequence
       \/ db = UsedTables /\ seq = UsedSequence
    /\ sess = db
    /\ s_open = FALSE
    /\ cache = EmptyCache
    /\ processed_offers = 0
    /\ l_pc = "idle"
    /\ l_offers = <<>>
    /\ l_batch_id = "b1"
    /\ l_i = 1
    /\ l_ts = 0
    /\ l_err = "none"
    /\ l_outcome = "none"
    /\ l_calls = 0
    /\ l_fault = FALSE
    /\ db_before = db
    /\ resolved = {}
    /\ inserted = {}
    /\ commits = 0
    /\ rollbacks = 0
    /\ closes = 0

\* the loader is not part of the run
InitLoadIdle ==
    /\ db = EmptyTables /\ seq = NoSequence
    /\ sess = db
    /\ s_open = FALSE
    /\ cache = EmptyCache
    /\ processed_offers = 0
    /\ l_pc = "idle"
    /\ l_offers = <<>>
    /\ l_batch_id = "b1"
    /\ l_i = 1
    /\ l_ts = 0
    /\ l_err = "none"
    /\ l_outcome = "none"
    /\ l_calls = 0
    /\ l_fault = FALSE
    /\ db_before = db
    /\ resolved = {}
    /\ inserted = {}
    /\ commits = 0
    /\ rollbacks = 0
    /\ closes = 0

\* Mutant of Rollback: what the session had flushed stays in the tables.
Mut_Rollback(committed, flushed) == flushed

\* session.rollback() (db.py line 91): the tables are what was committed
Rollback(committed, flushed) == committed

\* the variables a step inside the session takes from the state it threaded
Threaded(s) ==
    /\ sess' = s.sess
    /\ seq' = s.seq
    /\ cache' = s.cache
    /\ resolved' = s.resolved
    /\ inserted' = s.inserted
    /\ l_err' = s.err

\* Mutant of NoOffers: an empty list is loaded like any other.
Mut_NoOffers(offers) == FALSE

\* `if not offers` (line 42)
NoOffers(offers) == offers = <<>>

\* load_offers(offers, batch_id) is called (lines 42-48): an empty list
\* returns at once, otherwise a session is opened.
LoadCall(offers, batch_id) ==
    /\ l_pc = "idle"
    /\ l_calls < MaxLoads
    /\ l_calls' = l_calls + 1
    /\ l_offers' = offers
    /\ l_batch_id' = batch_id
    /\ l_i' = 1
    /\ l_err' = "none"
    /\ l_fault' = FALSE
    /\ db_before' = db
    /\ IF NoOffers(offers)
       THEN /\ l_outcome' = "returned"
            /\ UNCHANGED <<l_pc, s_open>>
       ELSE /\ l_outcome' = "none"
            /\ l_pc' = "dims"
            /\ s_open' = TRUE
    /\ UNCHANGED <<db, sess, seq, cache, processed_offers, l_ts, resolved, inserted,
                   commits, rollbacks, closes>>

\* _load_dimensions: one turn of its loop (lines 153-158); after the last
\* offer _load_facts begins and takes extraction_ts (line 161).
LoadDimensionsStep ==
    /\ l_pc = "dims"
    /\ LET s == LoadDimensionsOf(LoadState, l_offers[l_i])
       IN  /\ Threaded(s)
           /\ IF s.err # "none"
              THEN l_pc' = "failed" /\ UNCHANGED <<l_i, l_ts>>
              ELSE IF l_i < Len(l_offers)
              THEN l_i' = l_i + 1 /\ UNCHANGED <<l_pc, l_ts>>
              ELSE l_pc' = "facts" /\ l_i' = 1 /\ l_ts' = l_calls
    /\ UNCHANGED <<db, s_open, processed_offers, l_offers, l_batch_id, l_outcome,
                   l_calls, l_fault, db_before, commits, rollbacks, closes>>

\* _load_facts: one turn of its loop (lines 162-194); after the last offer
\* processed_offers is bumped (line 52) and the with-block is left.
LoadFactsStep ==
    /\ l_pc = "facts"
    /\ LET s == LoadFactOf(LoadState, l_offers[l_i], l_batch_id, l_ts)
       IN  /\ Threaded(s)
           /\ IF s.err # "none"
              THEN l_pc' = "failed" /\ UNCHANGED <<l_i, processed_offers>>
              ELSE IF l_i < Len(l_offers)
              THEN l_i' = l_i + 1 /\ UNCHANGED <<l_pc, processed_offers>>
              ELSE /\ l_pc' = "commit"
                   /\ processed_offers' = processed_offers + Len(l_offers)
                   /\ UNCHANGED l_i
    /\ UNCHANGED <<db, s_open, l_offers, l_batch_id, l_ts, l_outcome, l_calls,
                   l_fault, db_before, commits, rollbacks, closes>>

\* The database fails under a statement of the current phase (a lost
\* connection, a timeout): the query or flush raises.
DatabaseError ==
    /\ l_pc \in {"dims", "facts"}
    /\ l_err' = "OperationalError"
    /\ l_fault' = TRUE
    /\ l_pc' = "failed"
    /\ UNCHANGED <<db, sess, s_open, seq, cache, processed_offers, l_offers, l_batch_id,
                   l_i, l_ts, l_outcome, l_calls, db_before, resolved, inserted,
                   commits, rollbacks, closes>>

\* get_session, lines 89 and 95: session.commit() flushes what is pending
\* and commits; then the session is closed and load_offers returns.  A
\* commit that raises (ok = FALSE, or a constraint the flush finds broken)
\* goes to the handler of line 90.
\* Mutant of Commit: the commit replaces the facts that were there.
Mut_Commit(committed, flushed) == [flushed EXCEPT !.facts = @ \ committed.facts]

\* session.commit() (db.py line 89): what the session holds is committed
Commit(committed, flushed) == flushed

\* Mutant of SessionClose: the session is left open.
Mut_SessionClose(n) == n

\* finally: session.close() (db.py lines 94-95)
SessionClose(n) == n + 1

SessionCommit(ok) ==
    /\ l_pc = "commit"
    /\ LET s == Flush(LoadState)
       IN  IF ok /\ s.err = "none"
           THEN /\ db' = Commit(db, sess)
                /\ commits' = commits + 1
                /\ closes' = SessionClose(closes)
                /\ s_open' = FALSE
                /\ l_pc' = "idle"
                /\ l_outcome' = "returned"
                /\ UNCHANGED <<l_err, l_fault>>
           ELSE /\ l_pc' = "failed"
                /\ l_err' = IF s.err # "none" THEN s.err ELSE "OperationalError"
                /\ l_fault' = (l_fault \/ ~ok)
                /\ UNCHANGED <<db, commits, closes, s_open, l_outcome>>
    /\ UNCHANGED <<sess, seq, cache, processed_offers, l_offers, l_batch_id, l_i, l_ts,
                   l_calls, db_before, resolved, inserted, rollbacks>>

\* loader.py lines 54-56 and get_session lines 90-95: the exception is
\* logged and re-raised, the session is rolled back and closed, and the
\* exception leaves load_offers.
SessionRollback ==
    /\ l_pc = "failed"
    /\ db' = Rollback(db, sess)
    /\ sess' = Rollback(db, sess)
    /\ rollbacks' = rollbacks + 1
    /\ closes' = SessionClose(closes)
    /\ s_open' = FALSE
    /\ l_pc' = "idle"
    /\ l_outcome' = "raised"
    /\ UNCHANGED <<seq, cache, processed_offers, l_offers, l_batch_id, l_i, l_ts,
                   l_err, l_calls, l_fault, db_before, resolved, inserted, commits>>

----------------------------------------------------------------------------
(* The job driver: job() and main() of main.py *)

InitJobIdle ==
    /\ j_pc = "idle"
    /\ j_runs = 0
    /\ j_outcome = "none"

\* The exceptions a call inside job() raises; each is a subclass of Exception.
ExceptionClasses == {"KeyError", "IntegrityError", "OperationalError"}

\* Mutant of JobCaught: only the errors of the database are caught.
Mut_JobCaught(exception) == exception \in {"IntegrityError", "OperationalError"}

\* `except Exception` (line 35)
JobCaught(exception) == exception \in ExceptionClasses

\* `if offers` (line 30)
HasOffers(offers) == offers # <<>>

\* job() returns: offers and what extract_all_offers held are dropped; the
\* extractor is as before its call.
DropExtractLocals ==
    /\ x_pc' = "idle"
    /\ pairs' = <<>>
    /\ task' = <<>>
    /\ all_offers' = <<>>
    /\ x_result' = <<>>
    /\ x_acquired' = 0
    /\ x_posted' = 0
    /\ x_attempts' = 0
    /\ x_discovery' = Raised

\* main() calls job(), at once (line 46) or from the schedule (line 52);
\* job() calls extractor.extract_all_offers() (line 27).
JobStart ==
    /\ j_pc = "idle"
    /\ j_runs < MaxJobs
    /\ j_pc' = "extract"
    /\ j_runs' = j_runs + 1
    /\ j_outcome' = "none"
    /\ ExtractAllCall

\* extract_all_offers has returned (line 27): with offers
\* loader.load_offers(offers, batch_id) is called (lines 30-31), without
\* any the job is finished (line 33) and its locals are dropped.
JobExtracted(batch_id) ==
    /\ j_pc = "extract"
    /\ x_pc = "done"
    /\ IF HasOffers(x_result)
       THEN /\ LoadCall(x_result, batch_id)
            /\ j_pc' = "load"
            /\ UNCHANGED <<j_runs, j_outcome, extractVars>>
       ELSE /\ j_pc' = "idle"
            /\ j_outcome' = "finished"
            /\ DropExtractLocals
            /\ UNCHANGED <<j_runs, loadVars>>

\* load_offers has returned (line 33) or raised (lines 35-36): an exception
\* the handler catches is logged and job() returns; any other leaves job()
\* and main(), which ends the process.  The locals of the run are dropped.
JobReturn ==
    /\ j_pc = "load"
    /\ l_pc = "idle"
    /\ IF l_outcome = "raised"
       THEN IF JobCaught(l_err)
            THEN j_pc' = "idle" /\ j_outcome' = "logged"
            ELSE j_pc' = "dead" /\ j_outcome' = "escaped"
       ELSE j_pc' = "idle" /\ j_outcome' = "finished"
    /\ DropExtractLocals
    /\ l_offers' = <<>>
    /\ UNCHANGED <<j_runs, db, sess, s_open, seq, cache, processed_offers, l_pc,
                   l_batch_id, l_i, l_ts, l_err, l_outcome, l_calls, l_fault,
                   db_before, resolved, inserted, commits, rollbacks, closes>>

----------------------------------------------------------------------------
(* Specifications *)

InitRL == InitLimiter /\ InitParseIdle /\ InitJobIdle /\ InitExtractIdle /\ InitLoadIdle

NextRL ==
    \/ \E t \in Threads, n \in RequestSizes : AcquireCall(t, n) /\ UNCHANGED <<parseVars, extractVars, loadVars, jobVars>>
    \/ \E t \in Threads : AcquireEnter(t) /\ UNCHANGED <<parseVars, extractVars, loadVars, jobVars>>
    \/ \E t \in Threads : AcquireWake(t) /\ UNCHANGED <<parseVars, extractVars, loadVars, jobVars>>
    \/ Tick /\ UNCHANGED <<parseVars, extractVars, loadVars, jobVars>>

SpecRL == InitRL /\ [][NextRL]_vars

\* The limiter after rate_limit_burst_size calls of acquire(1) have
\* returned without a wait: made at once, which leaves the bucket empty, or
\* spread out, which leaves it full.  The clock is counted from that moment.
InitLimiterUsed ==
    /\ now = 0
    /\ tokens \in {0, Whole(rate_limit_burst_size)}
    /\ last_refill = 0
    /\ lock = NoThread
    /\ total_requests = rate_limit_burst_size
    /\ total_waits = 0
    /\ rpc = [t \in Threads |-> "idle"]
    /\ rn = [t \in Threads |-> 1]
    /\ rwait = [t \in Threads |-> ZeroWait]
    /\ slept_at = [t \in Threads |-> 0]
    /\ ret = [t \in Threads |-> ZeroWait]
    /\ calls = rate_limit_burst_size
    /\ returned = rate_limit_burst_size
    /\ all_one = TRUE
    /\ first_wait = <<0, ZeroWait>>

InitRLFair == InitLimiterUsed /\ InitParseIdle /\ InitJobIdle /\ InitExtractIdle /\ InitLoadIdle

\* A thread blocked at the lock gets it (a fair scheduler), a sleep that is
\* over returns, and time passes.
SpecRLFair ==
    /\ InitRLFair
    /\ [][NextRL]_vars
    /\ \A t \in Threads :
          /\ SF_vars(AcquireEnter(t) /\ UNCHANGED <<parseVars, extractVars, loadVars, jobVars>>)
          /\ WF_vars(AcquireWake(t) /\ UNCHANGED <<parseVars, extractVars, loadVars, jobVars>>)
    /\ WF_vars(Tick /\ UNCHANGED <<parseVars, extractVars, loadVars, jobVars>>)

InitParse == InitLimiter /\ InitParser /\ InitJobIdle /\ InitExtractIdle /\ InitLoadIdle

NextParse == ParseStep /\ UNCHANGED <<rlVars, extractVars, loadVars, jobVars>>

SpecParse == InitParse /\ [][NextParse]_vars

InitExtract == InitLimiter /\ InitParseIdle /\ InitJobIdle /\ InitExtractIdle /\ InitLoadIdle

NextExtract ==
    \/ ExtractAllCall /\ UNCHANGED <<rlVars, parseVars, loadVars, jobVars>>
    \/ DiscoverAcquire /\ UNCHANGED <<rlVars, parseVars, loadVars, jobVars>>
    \/ \E n \in 0..max_retries, r \in DiscoveryResponses :
           DiscoverPost(n, r) /\ UNCHANGED <<rlVars, parseVars, loadVars, jobVars>>
    \/ \E i \in Tasks : TaskStart(i) /\ UNCHANGED <<rlVars, parseVars, loadVars, jobVars>>
    \/ \E i \in Tasks : TaskAcquire(i) /\ UNCHANGED <<rlVars, parseVars, loadVars, jobVars>>
    \/ \E i \in Tasks : \E n \in 0..max_retries, r \in PageResponses(pairs[i]) :
           TaskPost(i, n, r) /\ UNCHANGED <<rlVars, parseVars, loadVars, jobVars>>
    \/ \E i \in Tasks : Collect(i) /\ UNCHANGED <<rlVars, parseVars, loadVars, jobVars>>
    \/ ExtractAllReturn /\ UNCHANGED <<rlVars, parseVars, loadVars, jobVars>>

SpecExtract == InitExtract /\ [][NextExtract]_vars

\* One call extract_pair_offers(fiat, asset, trade_type) on its own, as the
\* pool makes it for a pair: it has reached its first acquire.
PairArguments ==
    {Pair(fiat, asset, trade_type) :
        fiat \in {"VES", "ARS"}, asset \in {"USDT", "BTC"}, trade_type \in {"BUY", "SELL"}}

InitPair ==
    /\ InitLimiter /\ InitParseIdle /\ InitJobIdle /\ InitLoadIdle
    /\ x_pc = "pair"
    /\ pairs \in {<<p>> : p \in PairArguments}
    /\ task = <<[NewTask EXCEPT !.st = "acquire"]>>
    /\ all_offers = <<>>
    /\ x_result = <<>>
    /\ x_acquired = 0
    /\ x_posted = 0
    /\ x_attempts = 0
    /\ x_discovery = Raised

NextPair ==
    \/ \E i \in Tasks : TaskAcquire(i) /\ UNCHANGED <<rlVars, parseVars, loadVars, jobVars>>
    \/ \E i \in Tasks : \E n \in 0..max_retries, r \in PageResponses(pairs[i]) :
           TaskPost(i, n, r) /\ UNCHANGED <<rlVars, parseVars, loadVars, jobVars>>

\* Every blocking call of the loop returns: acquire sleeps a finite time and
\* a POST is bounded by the request timeout and the retry count.
SpecPair == InitPair /\ [][NextPair]_vars /\ WF_vars(NextPair)

InitLoad == InitLimiter /\ InitParseIdle /\ InitJobIdle /\ InitExtractIdle /\ InitLoader

NextLoad ==
    \/ \E offers \in Batches, batch_id \in BatchIds :
           LoadCall(offers, batch_id) /\ UNCHANGED <<rlVars, parseVars, extractVars, jobVars>>
    \/ LoadDimensionsStep /\ UNCHANGED <<rlVars, parseVars, extractVars, jobVars>>
    \/ LoadFactsStep /\ UNCHANGED <<rlVars, parseVars, extractVars, jobVars>>
    \/ DatabaseError /\ UNCHANGED <<rlVars, parseVars, extractVars, jobVars>>
    \/ \E ok \in BOOLEAN : SessionCommit(ok) /\ UNCHANGED <<rlVars, parseVars, extractVars, jobVars>>
    \/ SessionRollback /\ UNCHANGED <<rlVars, parseVars, extractVars, jobVars>>

SpecLoad == InitLoad /\ [][NextLoad]_vars

\* A caller of both components: it calls extract_all_offers and, when the
\* extraction found no pair, goes on to call load_offers with any batches,
\* on a database that starts empty.
InitShort ==
    /\ InitLimiter /\ InitParseIdle /\ InitJobIdle /\ InitExtractIdle /\ InitLoader
    /\ db = EmptyTables

NextShort ==
    \/ NextExtract
    \/ /\ x_pc = "done"
       /\ pairs = <<>>
       /\ NextLoad

SpecShort == InitShort /\ [][NextShort]_vars

\* The worker process: main() runs job() again and again.  The discovery
\* answers are those with at most one asset, which keeps a run small.
\* _load_facts and the commit are not among the steps: every offer
\* extract_all_offers returns is one _parse_offer emitted, and with those
\* _load_dimensions raises at its first offer (loader.py line 156), so a
\* load that job() starts ends in the rollback.
JobDiscoveryResponses ==
    {Raised, Body(SuccessCode, <<>>), Body(SuccessCode, <<FiatItem("VES", <<"USDT">>)>>)}

InitJob == InitLimiter /\ InitParseIdle /\ InitJobIdle /\ InitExtractIdle /\ InitLoader

NextJob ==
    \/ JobStart /\ UNCHANGED <<rlVars, parseVars, loadVars>>
    \/ DiscoverAcquire /\ UNCHANGED <<rlVars, parseVars, loadVars, jobVars>>
    \/ \E n \in 0..max_retries, r \in JobDiscoveryResponses :
           DiscoverPost(n, r) /\ UNCHANGED <<rlVars, parseVars, loadVars, jobVars>>
    \/ \E i \in Tasks : TaskStart(i) /\ UNCHANGED <<rlVars, parseVars, loadVars, jobVars>>
    \/ \E i \in Tasks : TaskAcquire(i) /\ UNCHANGED <<rlVars, parseVars, loadVars, jobVars>>
    \/ \E i \in Tasks : \E n \in 0..max_retries, r \in PageResponses(pairs[i]) :
           TaskPost(i, n, r) /\ UNCHANGED <<rlVars, parseVars, loadVars, jobVars>>
    \/ \E i \in Tasks : Collect(i) /\ UNCHANGED <<rlVars, parseVars, loadVars, jobVars>>
    \/ ExtractAllReturn /\ UNCHANGED <<rlVars, parseVars, loadVars, jobVars>>
    \/ \E batch_id \in BatchIds : JobExtracted(batch_id) /\ UNCHANGED <<rlVars, parseVars>>
    \/ LoadDimensionsStep /\ UNCHANGED <<rlVars, parseVars, extractVars, jobVars>>
    \/ DatabaseError /\ UNCHANGED <<rlVars, parseVars, extractVars, jobVars>>
    \/ SessionRollback /\ UNCHANGED <<rlVars, parseVars, extractVars, jobVars>>
    \/ JobReturn /\ UNCHANGED <<rlVars, parseVars>>

SpecJob == InitJob /\ [][NextJob]_vars

----------------------------------------------------------------------------
(* Claims about the rate limiter, checked under SpecRL *)

\* C1: while one thread is blocked in the sleep of a waiting acquire, a
\* sibling thread that has called acquire can run its own token accounting:
\* it is not held back until the sleeper wakes.
C1_SiblingProceedsDuringSleep ==
    \A t \in Threads, u \in Threads :
        (t # u /\ rpc[t] = "sleep" /\ rpc[u] = "lock") => ENABLED AcquireEnter(u)

\* C2: every acquire(n) that finds at least n tokens after the refill
\* deducts exactly n and returns 0; every other acquire computes
\* wait = (n - tokens) / tokens_per_second at call time, returns that wait,
\* and leaves the bucket at exactly 0 when it returns.
C2_AcquireAccounting ==
    [][\A t \in Threads :
         LET sum == tokens + (now - last_refill) * rate_limit_requests_per_minute
             cap == rate_limit_burst_size * SecondsPerMinute
             have == IF sum > cap THEN cap ELSE sum
             want == rn[t] * SecondsPerMinute
         IN /\ (rpc[t] = "lock" /\ rpc'[t] # "lock") =>
                  IF have >= want
                  THEN /\ rpc'[t] = "idle"
                       /\ tokens' = have - want
                       /\ ret'[t] = <<0, 1>>
                  ELSE /\ rpc'[t] = "sleep"
                       /\ rwait'[t] = <<want - have, rate_limit_requests_per_minute>>
            /\ (rpc[t] = "sleep" /\ rpc'[t] = "idle") =>
                  /\ tokens' = 0
                  /\ ret'[t] = rwait[t]
                  /\ ret'[t][1] > 0
      ]_vars

\* C2 witness: one call has returned after a wait, leaving the bucket empty,
\* and another call has returned without any wait.
C2_Witness ==
    \E t \in Threads :
        /\ rpc[t] = "idle"
        /\ Positive(ret[t])
        /\ tokens = 0
        /\ total_waits >= 1
        /\ total_requests > total_waits

\* C3: with the clock standing still and a full bucket of burst_size = 20,
\* acquire(1) calls return wait 0 for exactly the first 20 calls, and the
\* 21st computes the wait (1 - 0) / tokens_per_second = 60/100 s > 0.
C3_FixedClockBurst ==
    (now = 0 /\ all_one) =>
        /\ calls <= rate_limit_burst_size =>
              (first_wait[1] = 0 /\ returned = calls /\ total_waits = 0)
        /\ calls > rate_limit_burst_size =>
              /\ calls = rate_limit_burst_size + 1
              /\ returned = rate_limit_burst_size
              /\ first_wait = <<rate_limit_burst_size + 1,
                                <<SecondsPerMinute, rate_limit_requests_per_minute>>>>
              /\ tokens = 0
        /\ \A t \in Threads : rpc[t] # "sleep" => ret[t] = <<0, 1>>

\* C3 witness: the 21st acquire(1) on a standing clock is the first to wait.
C3_Witness ==
    /\ now = 0
    /\ all_one
    /\ calls = rate_limit_burst_size + 1
    /\ first_wait[1] = rate_limit_burst_size + 1
    /\ \E t \in Threads : rpc[t] = "sleep"

\* C17: in every reachable state of the rate limiter, under any
\* interleaving of concurrent acquire calls, 0 <= tokens <= capacity,
\* total_waits <= total_requests, and total_requests is the number of
\* acquire calls that have returned.
C17_LimiterStateBounds ==
    /\ 0 <= tokens
    /\ tokens <= Whole(rate_limit_burst_size)
    /\ total_waits <= total_requests
    /\ total_requests = returned

\* C17 witness: calls of two threads have returned, one of them after a
\* wait, while another call is blocked at the lock held by a sleeper.
C17_Witness ==
    /\ total_waits >= 1
    /\ total_requests > total_waits
    /\ \E t \in Threads, u \in Threads :
          /\ rpc[t] = "sleep" /\ lock = t
          /\ rpc[u] = "lock"

\* the clock of the model has reached its bound while a sleeper still
\* needs time to pass
ClockBoundReached ==
    /\ now = MaxClock
    /\ \E u \in Threads : /\ rpc[u] = "sleep"
                          /\ (now - slept_at[u]) * rwait[u][2] < rwait[u][1]

\* C24: every acquire call eventually returns and never raises, for any
\* n >= 1 (n greater than the capacity included) and any number of
\* concurrent callers, with a fair scheduler and a positive refill rate.
\* Checked under SpecRLFair, up to the bound of the model's clock.
C24_AcquireReturns ==
    /\ [](\A t \in Threads : rpc[t] = "sleep" => Positive(rwait[t]))
    /\ \A t \in Threads :
          (rpc[t] # "idle") ~> (rpc[t] = "idle" \/ ClockBoundReached)

\* C24 witness: an acquire for more than the capacity has returned after
\* its wait, while the other thread's call had to queue for the lock.
C24_Witness ==
    \E t \in Threads :
        /\ rpc[t] = "idle"
        /\ rn[t] > rate_limit_burst_size
        /\ Positive(ret[t])
        /\ total_waits >= 1
        /\ returned >= rate_limit_burst_size + 2

----------------------------------------------------------------------------
(* Claims about _parse_offer, checked under SpecParse *)

\* What the raw record says, read off the raw texts.
RawText(v) == IF v = Missing THEN "0" ELSE IF v = Null THEN "None" ELSE v
RawUnparseable(v) == RawText(v) \notin {"3", "2", "2.0", "1", "0", "-1", "NaN"}
RawIsNaN(v) == RawText(v) = "NaN"
RawNumber(v) ==
    CASE RawText(v) = "3" -> 3
      [] RawText(v) \in {"2", "2.0"} -> 2
      [] RawText(v) = "1" -> 1
      [] RawText(v) = "-1" -> -1
      [] OTHER -> 0
RawNonPositive(v) == ~RawUnparseable(v) /\ ~RawIsNaN(v) /\ RawNumber(v) <= 0
RawAnyUnparseable(adv) ==
    \/ RawUnparseable(adv.price)
    \/ RawUnparseable(adv.surplusAmount)
    \/ RawUnparseable(adv.minSingleTransAmount)
    \/ RawUnparseable(adv.maxSingleTransAmount)
RawOrNone(v) == IF v \in {Missing, Null} THEN NoneValue ELSE v
\* the record's numeric and descriptive fields are the input's
FieldsCopied(offer, adv) ==
    /\ offer.price = [ok |-> TRUE, nan |-> FALSE, val |-> RawNumber(adv.price)]
    /\ offer.available_amount =
           [ok |-> TRUE, nan |-> FALSE, val |-> RawNumber(adv.surplusAmount)]
    /\ offer.min_limit = [ok |-> TRUE, nan |-> RawIsNaN(adv.minSingleTransAmount),
                          val |-> RawNumber(adv.minSingleTransAmount)]
    /\ offer.max_limit = [ok |-> TRUE, nan |-> RawIsNaN(adv.maxSingleTransAmount),
                          val |-> RawNumber(adv.maxSingleTransAmount)]
    /\ offer.asset = RawOrNone(adv.asset)
    /\ offer.fiat = RawOrNone(adv.fiatUnit)
    /\ offer.trade_type = RawOrNone(adv.tradeType)
RawClaimedAbsent(adv) ==
    \/ RawNonPositive(adv.price)
    \/ RawNonPositive(adv.surplusAmount)
    \/ RawAnyUnparseable(adv)

C10_AllNumericFieldsPositive ==
    (parse_pc = "done" /\ Len(parsed.offer) = 1) =>
        \A d \in {parsed.offer[1].price, parsed.offer[1].available_amount,
                  parsed.offer[1].min_limit, parsed.offer[1].max_limit} :
            ~d.nan /\ d.val > 0

----------------------------------------------------------------------------
(* Claims about the extraction, checked under SpecExtract *)

\* C4: extract_pair_offers issues at most max_pages_per_pair page requests
\* for a pair, and issues no page request after the first page whose data
\* list is empty, even when the page counter is under the cap.
C4_PageRequestsBounded ==
    /\ [](\A i \in Tasks : task[i].requests <= max_pages_per_pair)
    /\ [][\A i \in Tasks :
             task[i].stop = "empty" =>
                 /\ i \in DOMAIN task'
                 /\ task'[i].requests = task[i].requests
                 /\ task'[i].st \in {"finished", "collected"}
         ]_vars

\* C4 witness: one pair stopped on an empty page under the cap, another
\* was stopped by the cap after max_pages_per_pair requests.
C4_Witness ==
    \E i \in Tasks, j \in Tasks :
        /\ task[i].stop = "empty"
        /\ task[i].requests < max_pages_per_pair
        /\ task[j].stop = "cap"
        /\ task[j].requests = max_pages_per_pair

\* the offers of pair task i in a list, in the list's order
OffersOf(i, list) == SelectSeq(list, LAMBDA o : o.offer_external_id[1] = i)
OfferIds(list) == {list[k].offer_external_id : k \in 1..Len(list)}
\* the returned list is the multiset union of what the pair tasks returned
UnionOfTasks(list) ==
    /\ \A k \in 1..Len(list) : list[k].offer_external_id[1] \in Tasks
    /\ Cardinality(OfferIds(list)) = Len(list)
    /\ \A i \in Tasks : OffersOf(i, list) = task[i].offers

C11_PairCallReturnsList ==
    /\ [](\A i \in Tasks : task[i].exc = "none")
    /\ (\E i \in Tasks : Running(i))
           ~> (\A i \in Tasks : task[i].st = "finished" /\ task[i].exc = "none")

\* C11 witness: the call ended on a malformed body after a parsed page and
\* returned that page's offers.
C11_Witness ==
    \E i \in Tasks :
        /\ task[i].st = "finished" /\ task[i].failure = "AttributeError"
        /\ task[i].offers # <<>>

\* the number of page requests the pair tasks have issued, from task k on
RECURSIVE PageRequests(_)
PageRequests(k) == IF k > Len(task) THEN 0 ELSE task[k].requests + PageRequests(k + 1)

\* how often <<fiat, asset>> is listed in the data of a discovery body
Listed(data, fiat, asset) ==
    Cardinality({<<k, j>> \in (DOMAIN data) \X (1..2) :
                    /\ data[k].fiatUnit = fiat
                    /\ j \in DOMAIN data[k].assetList
                    /\ data[k].assetList[j] = asset})
\* how often a pair is in the returned list
Returned(list, pair) == Cardinality({k \in DOMAIN list : list[k] = pair})

\* C13: get_all_trading_pairs issues exactly one discovery request; if the
\* answer's code is not the success code it returns an empty list without
\* raising; on success it returns, for every fiat code and every asset of
\* that fiat's asset list, exactly two pairs (one BUY, one SELL), and no
\* other pair.
C13_DiscoveryPairs ==
    /\ x_pc \in {"idle", "discover", "discover_post"} => x_posted = 0
    /\ x_pc \in {"collect", "done"} =>
          /\ x_posted = 1 + PageRequests(1)
          /\ (x_discovery.kind = "body" /\ x_discovery.code # SuccessCode)
                => pairs = <<>> /\ x_pc = "done" /\ x_result = <<>>
          /\ (x_discovery.kind = "body" /\ x_discovery.code = SuccessCode)
                => /\ \A fiat \in {"VES", "ARS"}, asset \in {"USDT", "BTC"} :
                         /\ Returned(pairs, Pair(fiat, asset, "BUY"))
                                = Listed(x_discovery.data, fiat, asset)
                         /\ Returned(pairs, Pair(fiat, asset, "SELL"))
                                = Listed(x_discovery.data, fiat, asset)
                   /\ \A k \in DOMAIN pairs :
                         /\ pairs[k].trade_type \in {"BUY", "SELL"}
                         /\ Listed(x_discovery.data, pairs[k].fiat, pairs[k].asset) > 0

\* C13 witness: discovery answered one fiat with two assets and four pairs
\* were returned.
C13_Witness ==
    /\ x_pc = "collect"
    /\ x_discovery = Body(SuccessCode, <<FiatItem("VES", <<"USDT", "BTC">>)>>)
    /\ Len(pairs) = 4

\* C14: at every moment of extract_all_offers at most max_workers
\* extract_pair_offers calls run at once, and extract_all_offers returns
\* only after every submitted call has finished.
C14_BoundedPoolAndJoin ==
    /\ Cardinality({i \in Tasks : task[i].st \in {"acquire", "post"}}) <= max_workers
    /\ (x_pc = "done" /\ pairs # <<>>)
          => \A i \in Tasks : task[i].st = "collected" /\ task[i].stop # "none"

\* C14 witness: the pool is full while a submitted call waits in its queue.
C14_Witness ==
    /\ x_pc = "collect"
    /\ Cardinality({i \in Tasks : task[i].st \in {"acquire", "post"}}) = max_workers
    /\ \E i \in Tasks : task[i].st = "queued"

\* the acquire calls that have returned and whose request is not yet issued
AcquiredNotPosted ==
    (IF x_pc = "discover_post" THEN 1 ELSE 0)
        + Cardinality({i \in Tasks : task[i].st = "post"})

\* C15: every request call of the extractor (the discovery POST and each
\* page POST) is immediately preceded, in the same task, by one
\* rate_limiter.acquire() that has returned; no request is issued without
\* an acquire of its own.
C15_AcquireBeforeEveryRequest ==
    /\ [](x_acquired = x_posted + AcquiredNotPosted)
    /\ [][ /\ (x_pc' = "discover_post" /\ x_pc # "discover_post")
                 => x_acquired' = x_acquired + 1
           /\ (x_pc = "discover_post" /\ x_pc' # "discover_post")
                 => x_posted' = x_posted + 1
           /\ \A i \in Tasks :
                 /\ i \in DOMAIN task'
                 /\ (task'[i].requests # task[i].requests)
                       => /\ task[i].st = "post"
                          /\ task'[i].st # "post"
                          /\ task'[i].requests = task[i].requests + 1
                 /\ (task'[i].st = "post" /\ task[i].st # "post")
                       => /\ task[i].st = "acquire"
                          /\ x_acquired' = x_acquired + 1 ]_vars

\* C15 witness: a pair task has issued its second page request.
C15_Witness ==
    /\ x_pc = "collect"
    /\ \E i \in Tasks : task[i].requests = 2
    /\ x_acquired = x_posted

\* C18: in every execution of the extractor the number of HTTP attempts
\* sent to the upstream API, each automatic retry counted as an attempt,
\* never exceeds the number of rate_limiter.acquire() calls that returned.
C18_AttemptsWithinAcquires == x_attempts <= x_acquired

\* the records of page p of task i that _parse_offer accepts, in page order
RECURSIVE ValidOf(_, _, _, _)
ValidOf(ads, i, p, k) ==
    IF k > Len(ads) THEN <<>>
    ELSE LET r == ParseOffer(ads[k], <<i, p, k>>)
         IN  (IF r.offer # <<>> THEN <<r.offer[1]>> ELSE <<>>) \o ValidOf(ads, i, p, k + 1)
\* the valid offers of the pages task i fetched, from page p on
RECURSIVE ValidOfPages(_, _)
ValidOfPages(i, p) ==
    IF p > Len(task[i].fetched) THEN <<>>
    ELSE ValidOf(task[i].fetched[p], i, p, 1) \o ValidOfPages(i, p + 1)

\* C19: whatever ends the pagination of a pair (empty page, non-success
\* code, transport or HTTP failure after the retries, the page cap),
\* extract_pair_offers returns exactly the valid offers of the pages fetched
\* before the stop, in page order, and the stop affects that pair only.
C19_PartialResultsKept ==
    /\ [](\A i \in Tasks :
             /\ task[i].offers = ValidOfPages(i, 1)
             /\ task[i].stop \in {"error", "code", "empty"}
                   => Len(task[i].fetched) = task[i].requests - 1
             /\ task[i].stop = "cap" => Len(task[i].fetched) = task[i].requests)
    /\ [][\A i \in Tasks :
             (i \in DOMAIN task' /\ task[i].stop = "none" /\ task'[i].stop # "none")
                 => /\ \A j \in Tasks \ {i} : j \in DOMAIN task' /\ task'[j] = task[j]
                    /\ all_offers' = all_offers
         ]_vars

\* C19 witness: one pair was stopped by a non-success code on its second
\* page and keeps the offer of its first page, while a sibling stopped by
\* an exception keeps its own, and a third that stopped first has nothing.
C19_Witness ==
    \E i \in Tasks, j \in Tasks, k \in Tasks :
        /\ task[i].stop = "code" /\ task[i].requests = 2 /\ Len(task[i].offers) = 1
        /\ task[j].stop = "error" /\ task[j].requests = 2 /\ Len(task[j].offers) = 1
        /\ task[k].stop = "error" /\ task[k].requests = 1 /\ task[k].offers = <<>>

\* C20: a page request that keeps hitting a transient failure is attempted
\* at most 1 + max_retries times; when the retries are used up the failure
\* ends the pagination of the pair (no later page is requested) and the
\* offers of the earlier pages are kept.
C20_RetriesBoundedThenStop ==
    [][ /\ x_attempts' - x_attempts \in 0..(1 + max_retries)
        /\ x_posted' # x_posted => x_attempts' - x_attempts >= 1
        /\ \A i \in Tasks :
              /\ i \in DOMAIN task'
              /\ (task[i].failure = "none" /\ task'[i].failure = "RetryError")
                    => /\ x_attempts' - x_attempts = 1 + max_retries
                       /\ task'[i].st = "finished"
                       /\ task'[i].offers = task[i].offers
              /\ task[i].failure = "RetryError"
                    => /\ task'[i].requests = task[i].requests
                       /\ task'[i].offers = task[i].offers
                       /\ task'[i].st # "post"
      ]_vars

\* C20 witness: the second page request of a pair used up its retries and
\* the offer of the first page is kept.
C20_Witness ==
    \E i \in Tasks :
        /\ task[i].failure = "RetryError"
        /\ task[i].requests = 2
        /\ Len(task[i].offers) = 1

----------------------------------------------------------------------------
(* Claims about the loader, checked under SpecLoad *)

\* C6: if an exception occurs during dimension pre-resolution or fact
\* insertion of load_offers, the committed tables after the call equal the
\* committed tables before it and the exception is re-raised to the caller;
\* if no exception occurs, the batch is committed exactly once.
C6_RollbackOrCommitOnce ==
    /\ [](l_outcome = "raised" => db = db_before /\ l_err # "none")
    /\ [][ /\ (l_pc \in {"dims", "facts", "failed"} => db' = db_before)
           /\ (l_pc = "failed" => l_pc' = "idle" /\ l_outcome' = "raised")
           /\ (l_pc = "commit" /\ l_pc' = "idle"
                  => /\ commits' = commits + 1
                     /\ l_outcome' = "returned"
                     /\ db' = sess)
           /\ (commits' # commits => l_pc = "commit" /\ commits' = commits + 1)
           /\ (db' # db => commits' = commits + 1) ]_vars

\* A batch was committed, and a later batch that had flushed a new row was
\* rolled back and its exception raised.
C6_Witness ==
    /\ l_outcome = "raised"
    /\ commits = 1
    /\ l_calls = 2
    /\ \E row \in inserted : row[1] = "crypto" /\ \A r \in db.crypto : r.crypto_id # row[3]
    /\ db = db_before

EmittedBatches == { <<Emitted(1)>>, <<Emitted(1), Emitted(2)>> }

\* C7: a batch of N offers as the extractor produced them (each accepted by
\* _parse_offer) loads without an exception and commits exactly N fact
\* rows: every key the loader reads is in the record the extractor emits.
C7_EmittedBatchLoads ==
    (l_offers \in EmittedBatches /\ ~l_fault /\ rollbacks = 0)
        => /\ l_err = "none"
           /\ l_outcome # "raised"
           /\ (l_outcome = "returned"
                  => Cardinality({f \in db.facts : f.extraction_timestamp = l_ts})
                         = Len(l_offers))

\* C8: once a natural key has been resolved to a surrogate id by one
\* load_offers call, every later call on the same loader resolves the key to
\* the same id and inserts no second dimension row for it.
C8_StableSurrogateIds ==
    /\ \A a \in resolved, b \in resolved :
          (a[1] = b[1] /\ a[2] = b[2]) => a[3] = b[3]
    /\ \A a \in inserted, b \in inserted \cup resolved :
          (a[1] = b[1] /\ a[2] = b[2]) => a[3] = b[3]
    /\ \A a \in resolved :
          Cardinality({r \in sess.fiat : a[1] = "fiat" /\ r.currency_code = a[2]}) <= 1

\* A second call has resolved fiat "VES" again after a first call that
\* resolved it was committed.
C8_Witness ==
    /\ l_calls = 2
    /\ commits = 1
    /\ l_pc = "facts"
    /\ l_offers[1].fiat = "VES"
    /\ HasKey(cache.fiat, "VES")
    /\ <<"fiat", "VES", cache.fiat["VES"]>> \in resolved

\* the rows of a table set that are the active row of an advertiser id
ActiveRows(tables, adv_id) ==
    {r \in tables.adv : r.advertiser_id = adv_id /\ r.is_current = TRUE}

\* C12: in every warehouse state, with one job at a time and after any
\* sequence of load_offers calls, each advertiser id that has been seen
\* (has a row, or was in a batch that was committed) has exactly one
\* advertiser row with the active flag set.
C12_OneActiveRowPerAdvertiser ==
    /\ \A tables \in {db, sess} : \A r \in tables.adv :
          Cardinality(ActiveRows(tables, r.advertiser_id)) = 1
    /\ (l_pc = "idle" /\ l_outcome = "returned")
          => \A k \in 1..Len(l_offers) :
                Cardinality(ActiveRows(db, l_offers[k].advertiser.id)) = 1

\* C12 witness: two batches were committed on a warehouse that already held
\* advertiser "a1"; "a1" was found by the query, "a2" was inserted.
C12_Witness ==
    /\ commits = 2
    /\ l_pc = "idle"
    /\ \E a \in db.adv, b \in db.adv : a.advertiser_id = "a1" /\ b.advertiser_id = "a2"
    /\ \A row \in inserted : ~(row[1] = "adv" /\ row[2] = "a1")
    /\ \E row \in inserted : row[1] = "adv" /\ row[2] = "a2"

\* the committed rows a cache entry of a dimension can point at
CommittedKeys(dim) ==
    CASE dim = "crypto" -> {<<r.symbol, r.crypto_id>> : r \in db.crypto}
      [] dim = "fiat" -> {<<r.currency_code, r.fiat_id>> : r \in db.fiat}
      [] dim = "pm" -> {<<r.method_code, r.payment_method_id>> : r \in db.pm}
      [] dim = "adv" -> {<<r.advertiser_id, r.advertiser_sk>> : r \in db.adv}

\* C16: after any sequence of load_offers calls on one loader, calls that
\* failed and were rolled back included, every entry of the four caches maps
\* a natural key to the id of a row that exists in the committed warehouse
\* with that natural key.
C16_CachesPointAtCommittedRows ==
    l_pc = "idle" =>
        \A dim \in Dimensions : \A key \in DOMAIN cache[dim] :
            <<key, cache[dim][key]>> \in CommittedKeys(dim)

\* C21: in every committed batch, all fact rows written by one load_offers
\* call carry the caller's batch id and one extraction timestamp shared by
\* the whole batch, exactly one fact row exists per input offer, and no
\* fact or bridge row written by an earlier batch is modified or removed.
C21_BatchFactsAndHistory ==
    [][ /\ db.facts \subseteq db'.facts
        /\ db.bridge \subseteq db'.bridge
        /\ commits' = commits + 1 =>
              LET written == db'.facts \ db.facts
              IN  /\ \A f \in written : /\ f.batch_id = l_batch_id
                                        /\ f.extraction_timestamp = l_ts
                  /\ Cardinality(written) = Len(l_offers)
                  /\ \A k \in 1..Len(l_offers) :
                        Cardinality({f \in written :
                                        f.offer_external_id = l_offers[k].id}) = 1
      ]_vars

\* C21 witness: a batch of two offers was committed after an earlier batch
\* with another batch id, whose fact is still there.
C21_Witness ==
    /\ commits = 2
    /\ l_pc = "idle"
    /\ Len(l_offers) = 2
    /\ \E f \in db.facts, g \in db.facts, h \in db.facts :
          /\ f.extraction_timestamp = 1 /\ f.batch_id # l_batch_id
          /\ g.extraction_timestamp = 2 /\ h.extraction_timestamp = 2 /\ g # h
          /\ g.batch_id = l_batch_id /\ h.batch_id = l_batch_id

\* the committed bridge rows of a fact
BridgeRowsOf(f) ==
    {b \in db.bridge : /\ b.offer_id = f.offer_id
                       /\ b.extraction_timestamp = f.extraction_timestamp}
\* the committed ids of the payment methods an offer lists
MethodIdsOf(offer) ==
    {r.payment_method_id : r \in {q \in db.pm :
        \E k \in DOMAIN offer.payment_methods :
            offer.payment_methods[k].identifier = q.method_code}}

\* C22: in every committed warehouse state each bridge row references an
\* existing fact row by (fact id, extraction timestamp), and each fact has
\* exactly one bridge row per (offer, extraction timestamp, payment method)
\* for the payment methods its offer lists: no two bridge rows for one triple.
C22_OneBridgeRowPerMethod ==
    /\ \A b \in db.bridge : \E f \in db.facts : b \in BridgeRowsOf(f)
    /\ \A b \in db.bridge, c \in db.bridge :
          ( /\ b.offer_id = c.offer_id
            /\ b.extraction_timestamp = c.extraction_timestamp
            /\ b.payment_method_id = c.payment_method_id ) => b = c
    /\ (l_pc = "idle" /\ l_outcome = "returned")
          => \A k \in 1..Len(l_offers) : \A f \in db.facts :
                (f.extraction_timestamp = l_ts /\ f.offer_external_id = l_offers[k].id)
                    => {b.payment_method_id : b \in BridgeRowsOf(f)}
                           = MethodIdsOf(l_offers[k])

\* C23: on every exit path of a load_offers call with a non-empty list
\* (normal return, exception in either phase, exception at commit) the
\* session is closed exactly once, and a rollback is performed on every
\* path on which the commit did not succeed.
C23_SessionClosedOnEveryPath ==
    /\ [](/\ closes = commits + rollbacks
          /\ s_open <=> l_pc \in {"dims", "facts", "commit", "failed"})
    /\ [][ /\ (~s_open /\ s_open') => l_offers' # <<>>
           /\ (s_open /\ ~s_open')
                 => /\ closes' = closes + 1
                    /\ \/ commits' = commits + 1 /\ rollbacks' = rollbacks
                       \/ commits' = commits /\ rollbacks' = rollbacks + 1
           /\ closes' # closes => s_open /\ ~s_open'
           /\ l_pc = "failed" => rollbacks' = rollbacks + 1 /\ ~s_open'
         ]_vars

\* C23 witness: one call returned after its commit, another reached the
\* commit, which raised, and was rolled back; both sessions are closed.
C23_Witness ==
    /\ l_calls = 2
    /\ commits = 1 /\ rollbacks = 1 /\ closes = 2
    /\ l_outcome = "raised"
    /\ processed_offers >= 2
    /\ ~s_open


\* C25: empty inputs short-circuit.  When discovery returns no pairs,
\* extract_all_offers returns an empty list, no pair task is submitted and
\* the discovery POST stays the only request; when load_offers is given an
\* empty list it opens no session, writes nothing and leaves the caches and
\* processed_offers unchanged.
C25_EmptyInputsShortCircuit ==
    /\ []((x_pc \in {"collect", "done"} /\ pairs = <<>>)
            => /\ x_pc = "done"
               /\ x_result = <<>>
               /\ task = <<>>
               /\ all_offers = <<>>
               /\ x_acquired = 1
               /\ x_posted = 1)
    /\ [][ /\ (x_pc = "discover_post" /\ x_pc' # x_pc /\ pairs' = <<>>)
              => x_pc' = "done" /\ x_result' = <<>> /\ task' = <<>>
           /\ (l_calls' = l_calls + 1 /\ l_offers' = <<>>)
              => /\ ~s_open /\ ~s_open'
                 /\ l_pc' = "idle"
                 /\ l_outcome' = "returned"
                 /\ UNCHANGED <<db, sess, seq, cache, processed_offers,
                                resolved, inserted, commits, rollbacks, closes>>
         ]_vars

\* C25 witness: the extraction found no pair and returned; the loader then
\* committed a batch and was called again with an empty list.
C25_Witness ==
    /\ x_pc = "done" /\ pairs = <<>> /\ x_result = <<>> /\ x_posted = 1
    /\ l_calls = 2
    /\ l_offers = <<>>
    /\ l_outcome = "returned"
    /\ commits = 1
    /\ closes = 1
    /\ processed_offers >= 1
    /\ cache # EmptyCache

----------------------------------------------------------------------------
(* Claims about the job driver, checked under SpecJob *)

\* C26: no failure inside a job run escapes job() or ends the process: a
\* run is never stuck (it is in _load_dimensions, whose turn can always be
\* taken, or another of its steps is enabled), it ends with job() returned
\* (finished, or the exception logged), and a later run can start; load_offers is called only
\* by a run whose extract_all_offers has returned, with the list it
\* returned, and only when that list has at least one offer.
C26_JobContainsFailures ==
    /\ j_pc # "dead"
    /\ j_outcome # "escaped"
    /\ (j_pc = "idle" /\ j_runs > 0) => j_outcome \in {"finished", "logged"}
    /\ j_pc # "idle" => (l_pc = "dims" \/ ENABLED (l_pc # "dims" /\ NextJob))
    /\ (j_pc = "idle" /\ j_runs < MaxJobs)
          => ENABLED (JobStart /\ UNCHANGED <<rlVars, parseVars, loadVars>>)
    /\ (l_pc # "idle" \/ l_offers # <<>>)
          => /\ j_pc = "load"
             /\ x_pc = "done"
             /\ x_result # <<>>
             /\ l_offers = x_result
    /\ l_calls <= j_runs

\* C26 witness: the load of the first run raised and was rolled back, job()
\* returned with the exception logged, and the second run has started and
\* has its extraction under way.
C26_Witness ==
    /\ j_runs = 2
    /\ j_pc = "extract"
    /\ x_pc = "collect"
    /\ l_calls = 1
    /\ l_outcome = "raised"
    /\ l_err = "KeyError"
    /\ rollbacks = 1

====
